---- MODULE Spec2Model ----
(***************************************************************************)
(* Model of the two units of original logic of blog.romamik.com:           *)
(*   - src/lib/theme.ts : the theme controller that runs in the browser,   *)
(*   - src/lib/blog.ts  : getPosts, the draft filter / sort / date format. *)
(* Spec is the theme controller, BlogSpec is getPosts.  StepSpec is the     *)
(* theme controller with setTheme run statement by statement, and          *)
(* SelectorSpec is themeCssSelector of astro.config.mjs.                   *)
(***************************************************************************)
EXTENDS Integers, Sequences, FiniteSets, TLC

\* ------------------------------------------------------------------ bounds
\* matchMedia returns a new MediaQueryList on every call; at most MaxMQL
\* of them are created per page load.
MaxMQL == 3
\* Largest content collection.
MaxPosts == 3
\* Number of consecutive publish days the entries draw their pubDate from.
NumDates == 3
\* Largest number of style variants handed to themeCssSelector.
MaxVariants == 3

\* ------------------------------------------------------------- theme state
VARIABLES
    storage,      \* value under the localStorage key "theme", or ABSENT
    storageOK,    \* FALSE when localStorage access throws
    os,           \* the OS colour scheme: "light" or "dark"
    phase,        \* "markup": no script has run yet; "loading": theme.ts
                  \* has not run yet; "ready": it has
    dataTheme,    \* the data-theme attribute of the document root
    autoWatcher,  \* theme.ts:2, a MediaQueryList (1..MaxMQL) or NULL
    registered,   \* the MediaQueryLists that carry handleAutoChange
    mqlCount,     \* number of MediaQueryLists created since the page load
    checked,      \* the theme controls whose .checked is true
    pref,         \* argument of the last setTheme call that returned
    atLoad,       \* what localStorage.getItem returned at theme.ts:44
    last,         \* the last event handled and how it ended
    noJs,         \* TRUE while the document root carries the class no-js
    carried       \* pref as it was when the page was last left, or NONE

\* -------------------------------------------------------------- blog state
VARIABLES
    files,        \* the frontmatter of the content files, in load order
    collection,   \* the loaded "blog" content collection, in load order
    mode,         \* import.meta.env.MODE
    tz,           \* UTC offset, in hours, of the machine that runs getPosts
    posts,        \* the value getPosts returned
    bpc,          \* "idle" before the getPosts call, "done" after it
    feed          \* the items GET of rss.xml.js handed to rss(), once it ran

\* ------------------------------------------------- setTheme in progress
VARIABLES
    call          \* the setTheme call in progress: the statement it is
                  \* at, its argument and its caller; NoCall when none is

\* --------------------------------------------------- themeCssSelector
VARIABLES
    styleVariants, \* context.styleVariants
    ecTheme,       \* the theme handed to themeCssSelector
    selector       \* the selector it returned, or NONE before the call

themeVars == <<storage, storageOK, os, phase, dataTheme, autoWatcher,
               registered, mqlCount, checked, pref, atLoad, last, noJs,
               carried>>
blogVars == <<files, collection, mode, tz, posts, bpc, feed>>
selVars == <<styleVariants, ecTheme, selector>>
vars == <<themeVars, blogVars, call, selVars>>

ABSENT == "<absent>"
NULL == 0
NONE == "<none>"

\* The three controls theme-dark, theme-light, theme-auto.
Controls == {"dark", "light", "auto"}

\* A persisted string that is none of the three preferences.
Bogus == "sepia"

OsValues == {"light", "dark"}

\* The controls that the page markup delivers checked.
MarkupChecked == {}

\* The inputs that querySelectorAll("#theme-btn-group input") finds.
BtnGroupInputs == Controls

\* The other colour scheme.
Flip(scheme) == IF scheme = "dark" THEN "light" ELSE "dark"

\* window.matchMedia("(prefers-color-scheme: dark)").matches
Matches(scheme) == scheme = "dark"

ApplyThemeSwapped(m) == IF m = "light" THEN "dark" ELSE "light"

ApplyThemeRaw(m) == m

\* theme.ts:29-31, the value applyTheme writes to data-theme.
ApplyTheme(m) == IF m = "light" THEN "light" ELSE "dark"

RemoveListenerNoop(reg, w) == reg

\* theme.ts:8-11, removeEventListener("change", handleAutoChange) on w.
RemoveListener(reg, w) == IF w # NULL THEN reg \ {w} ELSE reg

HandleAutoChangeInverted(matches) == ApplyTheme(IF matches THEN "light" ELSE "dark")

\* theme.ts:25-27, what one run of handleAutoChange writes to data-theme.
HandleAutoChange(matches) == ApplyTheme(IF matches THEN "dark" ELSE "light")

\* The record kept in last.
Event(op, arg, threw, calls, twice) ==
    [op |-> op, arg |-> arg, threw |-> threw, calls |-> calls, twice |-> twice]

\* theme.ts:4-23.  setItem throws when storage is unavailable and nothing
\* after it runs.
SetTheme(theme) ==
    IF ~storageOK
    THEN UNCHANGED <<storage, autoWatcher, registered, dataTheme, mqlCount, pref>>
    ELSE /\ storage' = theme
         /\ pref' = theme
         /\ IF theme = "auto"
            THEN /\ mqlCount < MaxMQL
                 /\ mqlCount' = mqlCount + 1
                 /\ autoWatcher' = mqlCount + 1
                 /\ dataTheme' = ApplyTheme(IF Matches(os) THEN "dark" ELSE "light")
                 /\ registered' = RemoveListener(registered, autoWatcher) \cup {mqlCount + 1}
            ELSE /\ autoWatcher' = NULL
                 /\ registered' = RemoveListener(registered, autoWatcher)
                 /\ dataTheme' = ApplyTheme(theme)
                 /\ UNCHANGED mqlCount

ClickKeepsChecked(t) == checked \cup {t}

\* theme.ts:37-40, the controls checked after the click handler of t.
ClickChecked(t) == (checked \ BtnGroupInputs) \cup {t}

\* theme.ts:35-41, the click handler of control t.
Click(t) ==
    /\ phase = "ready"
    /\ SetTheme(t)
    /\ checked' = IF storageOK THEN ClickChecked(t) ELSE checked
    /\ last' = Event("click", t, ~storageOK, 0,
                     last.op = "click" /\ last.arg = t)
    /\ UNCHANGED <<storageOK, os, phase, atLoad>>

DefaultThemeDark(v) == IF v = ABSENT THEN "dark" ELSE v

DefaultThemeSystem(v) == IF v = ABSENT THEN "system" ELSE v

DefaultThemeIgnoresStored(v) == "auto"

\* theme.ts:44, localStorage.getItem("theme") ?? "auto".
DefaultTheme(v) == IF v = ABSENT THEN "auto" ELSE v

\* theme.ts:44-46, the module's top-level statements after the wiring of
\* the click handlers.  getItem throws when storage is unavailable; the
\* control lookup of line 46 throws when no control has that id.
Initialize ==
    /\ phase = "loading"
    /\ phase' = "ready"
    /\ IF ~storageOK
       THEN /\ UNCHANGED <<storage, autoWatcher, registered, dataTheme,
                           mqlCount, pref, checked, atLoad>>
            /\ last' = Event("init", NONE, TRUE, 0, FALSE)
       ELSE LET theme == DefaultTheme(storage) IN
            /\ atLoad' = storage
            /\ SetTheme(theme)
            /\ checked' = IF theme \in Controls THEN checked \cup {theme} ELSE checked
            /\ last' = Event("init", theme, theme \notin Controls, 0, FALSE)
    /\ UNCHANGED <<storageOK, os>>

OSChangeClearsSlot ==
    /\ os' = Flip(os)
    /\ dataTheme' = IF registered # {} THEN HandleAutoChange(Matches(os'))
                    ELSE dataTheme
    /\ autoWatcher' = NULL
    /\ last' = Event("os", os', FALSE, Cardinality(registered), FALSE)
    /\ UNCHANGED <<storage, storageOK, phase, registered,
                   mqlCount, checked, pref, atLoad>>

OSChangeCallsSetTheme ==
    /\ os' = Flip(os)
    /\ IF registered # {}
       THEN /\ storage' = os'
            /\ pref' = os'
            /\ autoWatcher' = NULL
            /\ registered' = {}
            /\ dataTheme' = ApplyTheme(os')
       ELSE UNCHANGED <<storage, pref, autoWatcher, registered, dataTheme>>
    /\ last' = Event("os", os', FALSE, Cardinality(registered), FALSE)
    /\ UNCHANGED <<storageOK, phase, mqlCount, checked, atLoad>>

\* The OS colour scheme changes: every MediaQueryList that carries
\* handleAutoChange dispatches one change event to it.
OSChange ==
    /\ os' = Flip(os)
    /\ dataTheme' = IF registered # {} THEN HandleAutoChange(Matches(os'))
                    ELSE dataTheme
    /\ last' = Event("os", os', FALSE, Cardinality(registered), FALSE)
    /\ UNCHANGED <<storage, storageOK, phase, autoWatcher, registered,
                   mqlCount, checked, pref, atLoad>>

\* The page is left and loaded again: the document and the module state
\* are new, localStorage is kept.
Reload ==
    /\ phase = "ready"
    /\ phase' = "markup"
    /\ \E ok \in BOOLEAN : storageOK' = ok
    /\ dataTheme' = NONE
    /\ autoWatcher' = NULL
    /\ registered' = {}
    /\ mqlCount' = 0
    /\ checked' = MarkupChecked
    /\ pref' = NONE
    /\ atLoad' = NONE
    /\ last' = Event("reload", NONE, FALSE, 0, FALSE)
    /\ noJs' = TRUE
    /\ carried' = pref
    /\ UNCHANGED <<storage, os>>

RemoveNoJsNever(c) == c

\* The script of the page template that removes the class no-js from the
\* document root; c is whether the root carries the class.
RemoveNoJs(c) == FALSE

\* The page's scripts start: the class no-js goes before theme.ts runs.
ScriptStart ==
    /\ phase = "markup"
    /\ phase' = "loading"
    /\ noJs' = RemoveNoJs(noJs)
    /\ UNCHANGED <<storage, storageOK, os, dataTheme, autoWatcher,
                   registered, mqlCount, checked, pref, atLoad, last, carried>>

\* first-post.md:136, html:not(.no-js):not([data-theme]) body
\* { display: none }.
Hidden == ~noJs /\ dataTheme = NONE

\* ------------------------------------------------------------------- blog
\* pubDate of 2025-08-30-first-post.md, in days since 1970-01-01.
FirstPostDay == 20330

\* Publish dates: a frontmatter date is midnight UTC of that day.
Dates == FirstPostDay .. (FirstPostDay + NumDates - 1)

\* import.meta.env.MODE when no mode is defined.
UNDEFINED == "<undefined>"

\* import.meta.env.MODE: astro dev, astro build, other modes, none.
Modes == {"development", "production", "test", "staging", UNDEFINED}

\* UTC offsets of the build machine, in hours.
TzOffsets == {-5, 0, 3}

\* The draft flag and publish date of one entry.
DataSet == [draft : BOOLEAN, pubDate : Dates]

\* The title of the entry loaded at position i.
Title(i) == "Post " \o ToString(i)

\* The description of the entry loaded at position i; description is
\* optional in the schema, and every second entry has none.
Description(i) == IF i % 2 = 1 THEN "About post " \o ToString(i) ELSE NONE

\* The draft line of the frontmatter of the file loaded at position i:
\* a draft says "true"; of the others, the files at even positions have
\* no draft line and the files at odd positions say "false".
FrontmatterDraft(i, draft) ==
    IF draft THEN "true" ELSE IF i % 2 = 0 THEN NONE ELSE "false"

\* The frontmatter of n content files.
FilesOf(n) ==
    {[i \in 1..n |-> [draft |-> FrontmatterDraft(i, f[i].draft),
                      pubDate |-> f[i].pubDate]] :
     f \in [1..n -> DataSet]}

Files == UNION {FilesOf(n) : n \in 0..MaxPosts}

DraftSchemaDefaultTrue(raw) == IF raw = NONE THEN TRUE ELSE raw = "true"

\* part_003:9, draft: z.boolean().default(false).
DraftSchema(raw) == IF raw = NONE THEN FALSE ELSE raw = "true"

\* part_003:3-12, the collection the schema delivers for the files; the
\* slug of an entry is its load position.
LoadCollection(fs) ==
    [i \in DOMAIN fs |->
        [slug |-> i,
         data |-> [title |-> Title(i), description |-> Description(i),
                   pubDate |-> fs[i].pubDate,
                   draft |-> DraftSchema(fs[i].draft)]]]

IsDevTypo(m) == m = "dev"

IsDevNotProduction(m) == m # "production"

\* blog.ts:8
IsDev(m) == m = "development"

DraftFilterInverted(isDev, data) == isDev \/ data.draft

\* blog.ts:10, the filter handed to getCollection.
DraftFilter(isDev, data) == isDev \/ ~data.draft

\* Date.prototype.getTime of midnight UTC of a day, in days (the code's
\* milliseconds are this value times 86400000).
GetTime(day) == day

CompareAscending(a, b) == GetTime(a.data.pubDate) - GetTime(b.data.pubDate)

\* blog.ts:13, the comparator handed to sort.
Compare(a, b) == GetTime(b.data.pubDate) - GetTime(a.data.pubDate)

RECURSIVE InsertSortedUnstable(_, _)
InsertSortedUnstable(x, s) ==
    IF s = <<>> THEN <<x>>
    ELSE IF Compare(x, Head(s)) <= 0 THEN <<x>> \o s
         ELSE <<Head(s)>> \o InsertSortedUnstable(x, Tail(s))

RECURSIVE InsertSortedDropsTies(_, _)
InsertSortedDropsTies(x, s) ==
    IF s = <<>> THEN <<x>>
    ELSE IF Compare(x, Head(s)) = 0 THEN s
         ELSE IF Compare(x, Head(s)) < 0 THEN <<x>> \o s
              ELSE <<Head(s)>> \o InsertSortedDropsTies(x, Tail(s))

\* Array.prototype.sort is stable: x goes before the first element that
\* the comparator puts after it.
RECURSIVE InsertSorted(_, _)
InsertSorted(x, s) ==
    IF s = <<>> THEN <<x>>
    ELSE IF Compare(x, Head(s)) < 0 THEN <<x>> \o s
         ELSE <<Head(s)>> \o InsertSorted(x, Tail(s))

RECURSIVE SortPosts(_)
SortPosts(s) ==
    IF s = <<>> THEN <<>>
    ELSE InsertSorted(s[Len(s)], SortPosts(SubSeq(s, 1, Len(s) - 1)))

\* The calendar date of a day number (proleptic Gregorian calendar).
CivilFromDays(day) ==
    LET z == day + 719468
        era == z \div 146097
        doe == z - era * 146097
        yoe == (doe - doe \div 1460 + doe \div 36524 - doe \div 146096) \div 365
        doy == doe - (365 * yoe + yoe \div 4 - yoe \div 100)
        mp == (5 * doy + 2) \div 153
        d == doy - (153 * mp + 2) \div 5 + 1
        m == IF mp < 10 THEN mp + 3 ELSE mp - 9
        y == yoe + era * 400 + (IF m <= 2 THEN 1 ELSE 0)
    IN [year |-> y, month |-> m, day |-> d]

MonthNames == <<"January", "February", "March", "April", "May", "June",
                "July", "August", "September", "October", "November",
                "December">>

TwoDigit(n) == IF n < 10 THEN "0" \o ToString(n) ELSE ToString(n)

\* blog.ts:16-20, toLocaleDateString("en-US", {year: "numeric",
\* month: "long", day: "2-digit"}) of midnight UTC of pubDate, which
\* formats the date in the time zone of the machine.
FormatDate(pubDate, offset) ==
    LET c == CivilFromDays((pubDate * 24 + offset) \div 24)
    IN MonthNames[c.month] \o " " \o TwoDigit(c.day) \o ", " \o ToString(c.year)

\* blog.ts:14-21
WithFormattedDate(post, offset) ==
    [slug |-> post.slug, data |-> post.data,
     formattedDate |-> FormatDate(post.data.pubDate, offset)]

\* blog.ts:7-22
GetPosts(coll, m, offset) ==
    LET Keep(post) == DraftFilter(IsDev(m), post.data)
        sorted == SortPosts(SelectSeq(coll, Keep))
    IN [i \in 1..Len(sorted) |-> WithFormattedDate(sorted[i], offset)]

SourceAfterMapAssigns(post, offset) ==
    [slug |-> post.slug, data |-> post.data,
     formattedDate |-> FormatDate(post.data.pubDate, offset)]

\* blog.ts:14-15, the entry object the map callback received, after the
\* callback: the spread copies it and nothing is assigned to it.
SourceAfterMap(post, offset) == post

\* The loaded collection after a call of getPosts: filter and sort work
\* on a new array, the map callback sees the entry objects of the store.
StoreAfterGetPosts(coll, m, offset) ==
    [i \in DOMAIN coll |->
        IF DraftFilter(IsDev(m), coll[i].data)
        THEN SourceAfterMap(coll[i], offset)
        ELSE coll[i]]

\* One call of getPosts.
GetPostsCall ==
    /\ bpc = "idle"
    /\ posts' = GetPosts(collection, mode, tz)
    /\ bpc' = "done"
    /\ collection' = StoreAfterGetPosts(collection, mode, tz)
    /\ UNCHANGED <<files, mode, tz, feed>>

RssLinkNoTrailingSlash(post) == "/blog/" \o ToString(post.slug)

\* rss.xml.js:15
RssLink(post) == "/blog/" \o ToString(post.slug) \o "/"

\* rss.xml.js:9-16, the item of one post.
RssItem(post) ==
    [title |-> post.data.title, pubDate |-> post.data.pubDate,
     description |-> post.data.description, link |-> RssLink(post)]

\* The value of feed before GET ran.
NoFeed == [done |-> FALSE, items |-> <<>>]

\* rss.xml.js:4-19, GET: the items handed to rss().
RssGet ==
    /\ ~feed.done
    /\ LET ps == GetPosts(collection, mode, tz)
       IN feed' = [done |-> TRUE, items |-> [i \in 1..Len(ps) |-> RssItem(ps[i])]]
    /\ collection' = StoreAfterGetPosts(collection, mode, tz)
    /\ UNCHANGED <<files, mode, tz, posts, bpc>>

\* ------------------------------------------- setTheme, by statement
\* No setTheme call is in progress.
NoCall == [pc |-> "idle", arg |-> NONE, by |-> NONE]

NextStatementApplyFirst(pc, theme) ==
    CASE pc = "setItem" -> IF theme = "auto" THEN "matchMedia" ELSE "applyFixed"
      [] pc = "matchMedia" -> "applyAuto"
      [] pc = "applyAuto" -> "addListener"
      [] pc = "addListener" -> "unsubscribe"
      [] pc = "applyFixed" -> "unsubscribe"
      [] pc = "unsubscribe" -> "return"

\* theme.ts:4-23, the statement of setTheme(theme) that runs after the
\* statement pc.
NextStatement(pc, theme) ==
    CASE pc = "setItem" -> "unsubscribe"
      [] pc = "unsubscribe" -> IF theme = "auto" THEN "matchMedia" ELSE "applyFixed"
      [] pc = "matchMedia" -> "applyAuto"
      [] pc = "applyAuto" -> "addListener"
      [] pc = "addListener" -> "return"
      [] pc = "applyFixed" -> "return"

\* The call after its statement call.pc has run.
Advance == [call EXCEPT !.pc = NextStatement(call.pc, call.arg)]

\* theme.ts:35-36, a click on control t calls setTheme(t).  The event
\* loop starts a handler only when no other is running.
BeginClick(t) ==
    /\ phase = "ready"
    /\ call = NoCall
    /\ t = "auto" => mqlCount < MaxMQL
    /\ call' = [pc |-> "setItem", arg |-> t, by |-> "click"]
    /\ UNCHANGED themeVars

\* theme.ts:44-45, the module reads the persisted value and calls
\* setTheme; getItem throws when storage is unavailable.
BeginInit ==
    /\ phase = "loading"
    /\ call = NoCall
    /\ IF ~storageOK
       THEN /\ phase' = "ready"
            /\ last' = Event("init", NONE, TRUE, 0, FALSE)
            /\ UNCHANGED <<atLoad, call>>
       ELSE /\ atLoad' = storage
            /\ call' = [pc |-> "setItem", arg |-> DefaultTheme(storage), by |-> "init"]
            /\ UNCHANGED <<phase, last>>
    /\ UNCHANGED <<storage, storageOK, os, dataTheme, autoWatcher, registered,
                   mqlCount, checked, pref, noJs, carried, blogVars, selVars>>

\* theme.ts:5, localStorage.setItem("theme", theme); when it throws, the
\* call and its caller end there.
StmtSetItem ==
    /\ call.pc = "setItem"
    /\ IF ~storageOK
       THEN /\ call' = NoCall
            /\ last' = Event(call.by, call.arg, TRUE, 0,
                             last.op = "click" /\ last.arg = call.arg)
            /\ UNCHANGED storage
       ELSE /\ storage' = call.arg
            /\ call' = Advance
            /\ UNCHANGED last
    /\ UNCHANGED <<storageOK, os, phase, dataTheme, autoWatcher, registered,
                   mqlCount, checked, pref, atLoad, noJs, carried, blogVars,
                   selVars>>

\* theme.ts:8-11
StmtUnsubscribe ==
    /\ call.pc = "unsubscribe"
    /\ registered' = RemoveListener(registered, autoWatcher)
    /\ autoWatcher' = NULL
    /\ call' = Advance
    /\ UNCHANGED <<storage, storageOK, os, phase, dataTheme, mqlCount, checked,
                   pref, atLoad, last, noJs, carried, blogVars, selVars>>

\* theme.ts:15
StmtMatchMedia ==
    /\ call.pc = "matchMedia"
    /\ mqlCount' = mqlCount + 1
    /\ autoWatcher' = mqlCount + 1
    /\ call' = Advance
    /\ UNCHANGED <<storage, storageOK, os, phase, dataTheme, registered,
                   checked, pref, atLoad, last, noJs, carried, blogVars,
                   selVars>>

\* theme.ts:16
StmtApplyAuto ==
    /\ call.pc = "applyAuto"
    /\ dataTheme' = ApplyTheme(IF Matches(os) THEN "dark" ELSE "light")
    /\ call' = Advance
    /\ UNCHANGED <<storage, storageOK, os, phase, autoWatcher, registered,
                   mqlCount, checked, pref, atLoad, last, noJs, carried,
                   blogVars, selVars>>

\* theme.ts:19
StmtAddListener ==
    /\ call.pc = "addListener"
    /\ registered' = IF autoWatcher # NULL THEN registered \cup {autoWatcher}
                     ELSE registered
    /\ call' = Advance
    /\ UNCHANGED <<storage, storageOK, os, phase, dataTheme, autoWatcher,
                   mqlCount, checked, pref, atLoad, last, noJs, carried,
                   blogVars, selVars>>

\* theme.ts:21
StmtApplyFixed ==
    /\ call.pc = "applyFixed"
    /\ dataTheme' = ApplyTheme(call.arg)
    /\ call' = Advance
    /\ UNCHANGED <<storage, storageOK, os, phase, autoWatcher, registered,
                   mqlCount, checked, pref, atLoad, last, noJs, carried,
                   blogVars, selVars>>

\* theme.ts:37-40 and theme.ts:46, setTheme returns and its caller marks
\* the control.
StmtReturn ==
    /\ call.pc = "return"
    /\ pref' = call.arg
    /\ phase' = "ready"
    /\ checked' = IF call.by = "click" THEN ClickChecked(call.arg)
                  ELSE IF call.arg \in Controls THEN checked \cup {call.arg}
                  ELSE checked
    /\ last' = IF call.by = "click"
               THEN Event("click", call.arg, FALSE, 0,
                          last.op = "click" /\ last.arg = call.arg)
               ELSE Event("init", call.arg, call.arg \notin Controls, 0, FALSE)
    /\ call' = NoCall
    /\ UNCHANGED <<storage, storageOK, os, dataTheme, autoWatcher, registered,
                   mqlCount, atLoad, noJs, carried, blogVars, selVars>>

\* An OS change between two handlers.
StepOSChange ==
    /\ call = NoCall
    /\ OSChange
    /\ UNCHANGED <<noJs, carried, blogVars, call, selVars>>

\* --------------------------------------------------- themeCssSelector
\* The themes of the configuration.
ThemeNames == {"github-dark", "github-light", "dracula", "nord"}

\* The style variant lists of n themes, one variant per theme.
StyleVariantsOf(n) ==
    {v \in [1..n -> [theme : ThemeNames]] :
        \A i, j \in 1..n : v[i].theme = v[j].theme => i = j}

FindIndexOneBased(variants, theme) ==
    LET hits == {i \in DOMAIN variants : variants[i].theme = theme}
    IN IF hits = {} THEN -1
       ELSE CHOOSE i \in hits : \A j \in hits : i <= j

\* astro.config.mjs:28-30, styleVariants.findIndex(variant =>
\* variant.theme === theme): the zero-based position of the first hit,
\* or -1.
FindIndex(variants, theme) ==
    LET hits == {i \in DOMAIN variants : variants[i].theme = theme}
    IN IF hits = {} THEN -1
       ELSE (CHOOSE i \in hits : \A j \in hits : i <= j) - 1

\* astro.config.mjs:24-35
ThemeCssSelector(theme, variants) ==
    IF FindIndex(variants, theme) = 1 THEN "[data-theme='light']"
    ELSE "[data-theme='dark']"

\* One call of themeCssSelector.
SelectorCall ==
    /\ selector = NONE
    /\ selector' = ThemeCssSelector(ecTheme, styleVariants)
    /\ UNCHANGED <<styleVariants, ecTheme>>

\* Nothing is handed to themeCssSelector.
SelectorIdle ==
    /\ styleVariants = <<>>
    /\ ecTheme = NONE
    /\ selector = NONE

BlogIdle ==
    /\ files = <<>>
    /\ collection = <<>>
    /\ mode = "production"
    /\ tz = 0
    /\ posts = <<>>
    /\ bpc = "idle"
    /\ feed = NoFeed

ThemeInit ==
    /\ storage \in {ABSENT, "light", "dark", "auto", Bogus}
    /\ storageOK \in BOOLEAN
    /\ os \in OsValues
    /\ phase = "markup"
    /\ dataTheme = NONE
    /\ autoWatcher = NULL
    /\ registered = {}
    /\ mqlCount = 0
    /\ checked = MarkupChecked
    /\ pref = NONE
    /\ atLoad = NONE
    /\ last = Event("none", NONE, FALSE, 0, FALSE)
    /\ noJs = TRUE
    /\ carried = NONE

Init == ThemeInit /\ BlogIdle /\ call = NoCall /\ SelectorIdle

ClickDark == Click("dark") /\ UNCHANGED <<noJs, carried, blogVars, call, selVars>>
ClickLight == Click("light") /\ UNCHANGED <<noJs, carried, blogVars, call, selVars>>
ClickAuto == Click("auto") /\ UNCHANGED <<noJs, carried, blogVars, call, selVars>>
ScriptStarted == ScriptStart /\ UNCHANGED <<blogVars, call, selVars>>
Load == Initialize /\ UNCHANGED <<noJs, carried, blogVars, call, selVars>>
OSChanged == OSChange /\ UNCHANGED <<noJs, carried, blogVars, call, selVars>>
Reloaded == Reload /\ UNCHANGED <<blogVars, call, selVars>>

Next ==
    \/ ScriptStarted
    \/ Load
    \/ ClickDark
    \/ ClickLight
    \/ ClickAuto
    \/ OSChanged
    \/ Reloaded

Spec == Init /\ [][Next]_vars

\* The theme controller before theme.ts runs, with nothing persisted.
ThemeIdle ==
    /\ storage = ABSENT
    /\ storageOK = TRUE
    /\ os = "light"
    /\ phase = "markup"
    /\ dataTheme = NONE
    /\ autoWatcher = NULL
    /\ registered = {}
    /\ mqlCount = 0
    /\ checked = MarkupChecked
    /\ pref = NONE
    /\ atLoad = NONE
    /\ last = Event("none", NONE, FALSE, 0, FALSE)
    /\ noJs = TRUE
    /\ carried = NONE

BlogInit ==
    /\ ThemeIdle
    /\ call = NoCall
    /\ SelectorIdle
    /\ files \in Files
    /\ collection = LoadCollection(files)
    /\ mode \in Modes
    /\ tz \in TzOffsets
    /\ posts = <<>>
    /\ bpc = "idle"
    /\ feed = NoFeed

GetPostsCalled == GetPostsCall /\ UNCHANGED <<themeVars, call, selVars>>
RssGot == RssGet /\ UNCHANGED <<themeVars, call, selVars>>

BlogNext ==
    \/ GetPostsCalled
    \/ RssGot

BlogSpec == BlogInit /\ [][BlogNext]_vars

StepInit == ThemeInit /\ BlogIdle /\ call = NoCall /\ SelectorIdle

BeginClickDark == BeginClick("dark") /\ UNCHANGED <<blogVars, selVars>>
BeginClickLight == BeginClick("light") /\ UNCHANGED <<blogVars, selVars>>
BeginClickAuto == BeginClick("auto") /\ UNCHANGED <<blogVars, selVars>>

StepNext ==
    \/ ScriptStarted
    \/ BeginInit
    \/ BeginClickDark
    \/ BeginClickLight
    \/ BeginClickAuto
    \/ StmtSetItem
    \/ StmtUnsubscribe
    \/ StmtMatchMedia
    \/ StmtApplyAuto
    \/ StmtAddListener
    \/ StmtApplyFixed
    \/ StmtReturn
    \/ StepOSChange

StepSpec == StepInit /\ [][StepNext]_vars

SelectorInit ==
    /\ ThemeIdle
    /\ BlogIdle
    /\ call = NoCall
    /\ styleVariants \in UNION {StyleVariantsOf(n) : n \in 0..MaxVariants}
    /\ ecTheme \in ThemeNames
    /\ selector = NONE

SelectorCalled == SelectorCall /\ UNCHANGED <<themeVars, blogVars, call>>

SelectorNext == SelectorCalled

SelectorSpec == SelectorInit /\ [][SelectorNext]_vars

\* ----------------------------------------------------------- properties
\* C1: in every reachable state at most one MediaQueryList carries
\* handleAutoChange, and an OS change event runs the handler at most once.
C1_AtMostOneWatcher ==
    /\ Cardinality(registered) <= 1
    /\ last.op = "os" => last.calls <= 1

\* Auto was selected at least twice since the load, with the watcher of
\* the first selection torn down, and an OS change then ran the handler once.
C1_Witness ==
    /\ mqlCount >= 2
    /\ pref = "auto"
    /\ last.op = "os"
    /\ last.calls = 1

\* C2: while the preference is auto, a change of the OS colour scheme
\* sets data-theme to the new OS value, in the step of the OS change itself.
C2_AutoTracksOS ==
    [][(pref = "auto" /\ os' # os) => dataTheme' = os']_vars

\* The OS went from dark to light under auto and data-theme followed.
C2_Witness ==
    /\ pref = "auto"
    /\ last.op = "os"
    /\ last.calls = 1
    /\ os = "light"
    /\ dataTheme = "light"

\* C3: while the preference is light or dark, a change of the OS colour
\* scheme leaves data-theme unchanged, whatever was selected before.
C3_FixedIgnoresOS ==
    [][(pref \in {"light", "dark"} /\ os' # os) => dataTheme' = dataTheme]_vars

\* Light was selected after auto, then the OS went dark: no handler ran
\* and data-theme is still light.
C3_Witness ==
    /\ pref = "light"
    /\ mqlCount >= 1
    /\ last.op = "os"
    /\ last.calls = 0
    /\ os = "dark"
    /\ dataTheme = "light"

\* C4: after a click handler whose setTheme(t) returned, the checked
\* controls are exactly {t}.
C4_OneControlSelected ==
    (last.op = "click" /\ ~last.threw) => checked = {last.arg}

\* The page loaded as auto (auto checked), then dark was clicked.
C4_Witness ==
    /\ last.op = "click"
    /\ ~last.threw
    /\ last.arg = "dark"
    /\ atLoad = ABSENT
    /\ checked = {"dark"}

\* C5: a click on the control that was clicked just before, both calls
\* of setTheme returning, changes neither data-theme nor the persisted value
\* nor the number of registered handlers nor the checked control; after
\* setTheme("dark") twice, data-theme and storage are dark with no watcher.
C5_Idempotent ==
    [][(last'.op = "click" /\ last'.twice /\ ~last'.threw) =>
          /\ dataTheme' = dataTheme
          /\ storage' = storage
          /\ Cardinality(registered') = Cardinality(registered)
          /\ checked' = checked
          /\ (last'.arg = "dark" =>
                 dataTheme' = "dark" /\ storage' = "dark" /\ registered' = {}
                 /\ autoWatcher' = NULL)]_vars

\* Auto was clicked twice in a row: the second call made a new watcher.
C5_Witness ==
    /\ last.op = "click"
    /\ last.twice
    /\ ~last.threw
    /\ last.arg = "auto"
    /\ autoWatcher >= 2
    /\ registered = {autoWatcher}

\* C6: when getItem returned null at page load, initialization ends as
\* auto: data-theme is the OS colour scheme, the handler is registered on
\* the watcher, and the auto control is the one checked.
C6_DefaultIsAuto ==
    (last.op = "init" /\ atLoad = ABSENT) =>
        /\ pref = "auto"
        /\ dataTheme = os
        /\ autoWatcher # NULL
        /\ registered = {autoWatcher}
        /\ checked = {"auto"}

\* A load with nothing persisted, on an OS that prefers light.
C6_Witness ==
    /\ last.op = "init"
    /\ atLoad = ABSENT
    /\ os = "light"
    /\ dataTheme = "light"
    /\ checked = {"auto"}

\* The EffectiveTheme a preference resolves to.
Resolved(p) == IF p = "auto" THEN os ELSE p

\* C10: with local storage unavailable, neither initialization nor a
\* click throws, a click still applies the selected theme to data-theme,
\* and a load applies the default auto.
C10_StorageFailureSilent ==
    (~storageOK /\ last.op \in {"init", "click"}) =>
        /\ ~last.threw
        /\ dataTheme = Resolved(IF last.op = "init" THEN "auto" ELSE last.arg)

\* The slugs of the entries of a sequence.
Slugs(s) == {s[i].slug : i \in DOMAIN s}

\* The two-entry input: a draft dated D1, then a non-draft dated D2 > D1.
DraftThenNewer ==
    /\ Len(collection) = 2
    /\ collection[1].data.draft
    /\ ~collection[2].data.draft
    /\ collection[2].data.pubDate > collection[1].data.pubDate

\* C7: in production mode getPosts returns no draft entry and every
\* non-draft entry; on the two-entry input it returns the non-draft alone.
C7_ProductionHidesDrafts ==
    (bpc = "done" /\ mode = "production") =>
        /\ \A i \in DOMAIN posts : ~posts[i].data.draft
        /\ Slugs(posts) =
             {collection[i].slug : i \in {j \in DOMAIN collection : ~collection[j].data.draft}}
        /\ DraftThenNewer =>
             Len(posts) = 1 /\ posts[1].slug = 2 /\ posts[1].data = collection[2].data

\* getPosts ran in production on the two-entry input.
C7_Witness ==
    /\ bpc = "done"
    /\ mode = "production"
    /\ DraftThenNewer
    /\ Len(posts) = 1

\* C8: in development mode getPosts returns every entry of the
\* collection, drafts included; on the two-entry input it returns both.
C8_DevelopmentShowsAll ==
    (bpc = "done" /\ mode = "development") =>
        /\ Len(posts) = Len(collection)
        /\ Slugs(posts) = Slugs(collection)
        /\ \A i \in DOMAIN posts : posts[i].data = collection[posts[i].slug].data
        /\ DraftThenNewer => Len(posts) = 2

\* getPosts ran in development on the two-entry input and returned the draft.
C8_Witness ==
    /\ bpc = "done"
    /\ mode = "development"
    /\ DraftThenNewer
    /\ \E i \in DOMAIN posts : posts[i].data.draft

\* C9: the sequence getPosts returns is sorted by publish date
\* descending, in every mode.
C9_SortedDescending ==
    bpc = "done" =>
        \A i, j \in DOMAIN posts :
            i < j => posts[i].data.pubDate >= posts[j].data.pubDate

\* The collection was loaded oldest first and came back newest first.
C9_Witness ==
    /\ bpc = "done"
    /\ Len(collection) >= 2
    /\ collection[1].data.pubDate < collection[2].data.pubDate
    /\ Len(posts) >= 2
    /\ posts[1].data.pubDate > posts[Len(posts)].data.pubDate

\* C11: after initialization and after every handler, data-theme is the
\* preference when the preference is light or dark, and the OS colour
\* scheme when the preference is auto.
C11_ThemeMatchesPreference ==
    /\ pref \in {"light", "dark"} => dataTheme = pref
    /\ pref = "auto" => dataTheme = os

\* Under auto the OS went dark and data-theme followed.
C11_Witness ==
    /\ pref = "auto"
    /\ checked = {"auto"}
    /\ last.op = "os"
    /\ os = "dark"
    /\ dataTheme = "dark"

\* C12: the watcher slot is non-empty exactly when the last applied
\* preference is auto, the handler is registered on the watcher of the slot
\* and on nothing else, and a click that finds a watcher tears it down and
\* never leaves it in the slot.
C12_WatcherIffAuto ==
    /\ [](/\ (autoWatcher # NULL) <=> (pref = "auto")
          /\ registered = IF pref = "auto" THEN {autoWatcher} ELSE {})
    /\ [][(last'.op = "click" /\ ~last'.threw /\ autoWatcher # NULL) =>
             (autoWatcher' # autoWatcher /\ autoWatcher \notin registered')]_vars

\* Light was clicked after auto: the slot is empty, no handler is left.
C12_Witness ==
    /\ last.op = "click"
    /\ pref = "light"
    /\ mqlCount >= 1
    /\ autoWatcher = NULL
    /\ registered = {}

\* C13: once theme.ts has run with getItem returning, data-theme is light
\* or dark, whatever string was persisted or clicked.
C13_DataThemeLightOrDark ==
    (phase = "ready" /\ atLoad # NONE) => dataTheme \in {"light", "dark"}

\* The load found a string that is no preference and wrote dark.
C13_Witness ==
    /\ phase = "ready"
    /\ atLoad = Bogus
    /\ pref = Bogus
    /\ dataTheme = "dark"

\* C14 as stated: every step that is not a click (page load, OS change)
\* leaves the stored key exactly as it was, absent included.
C14_OnlyClicksWrite ==
    [][last'.op # "click" => storage' = storage]_vars

\* C14 as amended: the stored key is never deleted; a step that is not a
\* click leaves it as it was, except that a page load that finds the key
\* absent writes "auto" into it.
C14_LoadWritesDefaultOnly ==
    /\ [][storage # ABSENT => storage' # ABSENT]_vars
    /\ [][last'.op # "click" =>
             \/ storage' = storage
             \/ (storage = ABSENT /\ last'.op = "init" /\ storage' = "auto")]_vars

\* A load that found nothing persisted has stored auto.
C14_Witness ==
    /\ last.op = "init"
    /\ atLoad = ABSENT
    /\ storage = "auto"

\* C15: every step that changes the stored value writes one of light,
\* dark, auto.
C15_StoredValueIsPreference ==
    [][storage' # storage => storage' \in {"light", "dark", "auto"}]_vars

\* The key was absent, the load and then a click on light wrote it.
C15_Witness ==
    /\ atLoad = ABSENT
    /\ last.op = "click"
    /\ storage = "light"

\* C16: a preference in force is the persisted value and the checked
\* control; when the page is left with preference p and loads again with
\* storage readable, initialization ends with p persisted, the control of
\* p checked, a watcher exactly when p is auto, and data-theme what p
\* resolves to under the OS colour scheme at load.
C16_ReloadKeepsPreference ==
    /\ (phase = "ready" /\ pref \in Controls) =>
           storage = pref /\ checked = {pref}
    /\ (last.op = "init" /\ atLoad # NONE /\ carried \in Controls) =>
           /\ atLoad = carried
           /\ pref = carried
           /\ storage = carried
           /\ checked = {carried}
           /\ (autoWatcher # NULL) <=> (carried = "auto")
           /\ dataTheme = Resolved(carried)

\* Dark was in force when the page was left; it loaded again on an OS
\* that prefers light.
C16_Witness ==
    /\ last.op = "init"
    /\ carried = "dark"
    /\ atLoad = "dark"
    /\ os = "light"
    /\ dataTheme = "dark"
    /\ checked = {"dark"}
    /\ autoWatcher = NULL

LongDate(pubDate) ==
    LET c == CivilFromDays(pubDate)
    IN MonthNames[c.month] \o " " \o TwoDigit(c.day) \o ", " \o ToString(c.year)

\* C17: every entry getPosts returns carries the en-US long format of
\* its own publish date; for 2025-08-30 that is "August 30, 2025".
C17_FormattedDateLong ==
    bpc = "done" =>
        \A i \in DOMAIN posts :
            /\ posts[i].formattedDate = LongDate(posts[i].data.pubDate)
            /\ posts[i].data.pubDate = FirstPostDay =>
                   posts[i].formattedDate = "August 30, 2025"

\* C18: a call of getPosts, directly or from the feed, leaves the loaded
\* collection (entries, fields, order), the mode and the time zone as
\* they were.
C18_NoSideEffects ==
    [][collection' = collection /\ mode' = mode /\ tz' = tz]_vars

\* getPosts returned the second loaded entry first; the collection is
\* still in load order, its entries without a formattedDate.
C18_Witness ==
    /\ bpc = "done"
    /\ Len(posts) >= 2
    /\ posts[1].slug = 2
    /\ posts[1].formattedDate # ""
    /\ collection[1].slug = 1
    /\ DOMAIN collection[2] = {"slug", "data"}

C21_NoRaceOnWatcherSlot ==
    /\ [](/\ Cardinality(registered) <= 1
          /\ pref \in Controls => dataTheme = Resolved(pref))
    /\ [][os' # os => (autoWatcher' = autoWatcher /\ registered' = registered)]_vars
    /\ [][(autoWatcher' # autoWatcher \/ registered' # registered) =>
             last'.op \in {"click", "init", "reload"}]_vars

\* Auto, light, auto were selected with OS changes in between; the last
\* OS change ran the handler of the second watcher alone.
C21_Witness ==
    /\ last.op = "os"
    /\ last.calls = 1
    /\ pref = "auto"
    /\ autoWatcher = 2
    /\ registered = {2}
    /\ atLoad = "light"
    /\ dataTheme = os

\* C25: an OS change handled while the preference is auto flips
\* data-theme to the new OS value and leaves the persisted value, the
\* watcher, the registration, the checked control and the preference
\* (auto) as they were.
C25_OSChangeOnlyResolves ==
    [][(pref = "auto" /\ os' # os) =>
          /\ dataTheme' = Flip(dataTheme)
          /\ dataTheme' = os'
          /\ storage' = storage
          /\ autoWatcher' = autoWatcher
          /\ registered' = registered
          /\ checked' = checked
          /\ pref' = "auto"]_vars

\* Auto was persisted at load; the OS went light and only data-theme moved.
C25_Witness ==
    /\ last.op = "os"
    /\ atLoad = "auto"
    /\ pref = "auto"
    /\ storage = "auto"
    /\ checked = {"auto"}
    /\ autoWatcher # NULL
    /\ registered = {autoWatcher}
    /\ os = "light"
    /\ dataTheme = "light"

\* C26: once theme.ts has run with getItem returning, exactly one of the
\* three controls is checked, whatever value was persisted.
C26_AlwaysOneSelected ==
    (phase = "ready" /\ atLoad # NONE) => Cardinality(checked \cap Controls) = 1

\* C29: when the load found a string that is no preference, then until a
\* control is clicked that string is still persisted, data-theme is dark,
\* no watcher exists, no handler is registered, no control is checked, and
\* the initialization ended by throwing at the control lookup.
C29_BogusAtLoad ==
    /\ []((phase = "ready" /\ atLoad = Bogus /\ pref = Bogus) =>
            /\ storage = Bogus
            /\ dataTheme = "dark"
            /\ autoWatcher = NULL
            /\ registered = {}
            /\ mqlCount = 0
            /\ checked = {}
            /\ last.op = "init" => (last.threw /\ last.arg = Bogus))
    /\ [][(atLoad = Bogus /\ pref = Bogus /\ pref' # Bogus) =>
             last'.op \in {"click", "reload"}]_vars
    /\ [][(last'.op = "init" /\ atLoad' = Bogus) => pref' = Bogus]_vars

\* The load found the string, then the OS went light: dark stayed.
C29_Witness ==
    /\ atLoad = Bogus
    /\ pref = Bogus
    /\ last.op = "os"
    /\ last.calls = 0
    /\ os = "light"
    /\ dataTheme = "dark"
    /\ storage = Bogus
    /\ checked = {}

\* The load positions of the entries that pass the draft filter.
Kept == {j \in DOMAIN collection : DraftFilter(IsDev(mode), collection[j].data)}

\* C22: the call of getPosts behind the feed and the direct call, on the
\* same collection, mode and machine, return the entries in the same
\* order, and entries with equal publish dates come in load order.
C22_DeterministicStable ==
    /\ bpc = "done" =>
          /\ posts = GetPosts(collection, mode, tz)
          /\ \A i, j \in DOMAIN posts :
                (i < j /\ posts[i].data.pubDate = posts[j].data.pubDate) =>
                    posts[i].slug < posts[j].slug
    /\ (bpc = "done" /\ feed.done) =>
          /\ Len(feed.items) = Len(posts)
          /\ \A i \in DOMAIN posts : feed.items[i].link = RssLink(posts[i])

\* Both calls ran on three entries, the first and third of one date, the
\* second newer.
C22_Witness ==
    /\ bpc = "done"
    /\ feed.done
    /\ Len(posts) = 3
    /\ posts[1].slug = 2
    /\ posts[2].slug = 1
    /\ posts[3].slug = 3
    /\ posts[2].data.pubDate = posts[3].data.pubDate

\* C23: an entry whose file has no draft line is loaded with
\* draft = false and is in the result of getPosts in production mode and
\* in development mode.
C23_DraftDefaultsFalse ==
    \A j \in DOMAIN files :
        files[j].draft = NONE =>
            /\ ~collection[j].data.draft
            /\ (bpc = "done" /\ mode \in {"production", "development"}) =>
                   \E i \in DOMAIN posts : posts[i].slug = j

\* A production call on a draft followed by a file without a draft line.
C23_Witness ==
    /\ bpc = "done"
    /\ mode = "production"
    /\ Len(files) = 2
    /\ files[1].draft = "true"
    /\ files[2].draft = NONE
    /\ Len(posts) = 1
    /\ posts[1].slug = 2

\* C27: a draft is in the result of getPosts only when the mode is
\* exactly "development"; in every other mode no returned entry is a draft
\* and every draft of the collection is missing from the result.
C27_DraftsOnlyInDevelopment ==
    (bpc = "done" /\ mode # "development") =>
        /\ \A i \in DOMAIN posts : ~posts[i].data.draft
        /\ \A j \in DOMAIN collection :
              collection[j].data.draft => j \notin Slugs(posts)

\* A staging build of two drafts and one other entry.
C27_Witness ==
    /\ bpc = "done"
    /\ mode = "staging"
    /\ Len(collection) = 3
    /\ collection[1].data.draft
    /\ collection[3].data.draft
    /\ Len(posts) = 1
    /\ posts[1].slug = 2

\* C28: the result of getPosts holds each entry that passes the draft
\* filter exactly once and nothing else, and each returned entry is its
\* source entry, field for field, with formattedDate added.
C28_PermutationOfFiltered ==
    bpc = "done" =>
        /\ Len(posts) = Cardinality(Kept)
        /\ Slugs(posts) = Kept
        /\ \A i, j \in DOMAIN posts : posts[i].slug = posts[j].slug => i = j
        /\ \A i \in DOMAIN posts :
              /\ DOMAIN posts[i] = {"slug", "data", "formattedDate"}
              /\ posts[i].slug = collection[posts[i].slug].slug
              /\ posts[i].data = collection[posts[i].slug].data

\* A development call on three entries of one date, the second a draft.
C28_Witness ==
    /\ bpc = "done"
    /\ mode = "development"
    /\ Len(collection) = 3
    /\ collection[2].data.draft
    /\ collection[1].data.pubDate = collection[3].data.pubDate
    /\ collection[1].data.pubDate = collection[2].data.pubDate
    /\ Len(posts) = 3
    /\ posts[2].data.draft

\* C24: at every statement of a setTheme call at most one MediaQueryList
\* carries the handler; the statements that create the new watcher, apply
\* the theme and subscribe run with no handler registered; and when the
\* call is about to return no handler is registered for light or dark and
\* the new watcher alone carries it for auto.
C24_UnsubscribedFirst ==
    /\ Cardinality(registered) <= 1
    /\ call.pc \in {"matchMedia", "applyAuto", "addListener", "applyFixed"} =>
           registered = {}
    /\ call.pc \in {"matchMedia", "applyFixed"} => autoWatcher = NULL
    /\ (call.pc = "return" /\ call.arg # "auto") =>
           registered = {} /\ autoWatcher = NULL
    /\ (call.pc = "return" /\ call.arg = "auto") =>
           autoWatcher # NULL /\ registered = {autoWatcher}

\* Light was clicked under auto on a dark OS: the old watcher is gone and
\* data-theme is still the old dark.
C24_Witness ==
    /\ call.pc = "applyFixed"
    /\ call.arg = "light"
    /\ call.by = "click"
    /\ pref = "auto"
    /\ mqlCount >= 1
    /\ registered = {}
    /\ autoWatcher = NULL
    /\ dataTheme = "dark"

\* The zero-based index of theme in variants is 1.
AtIndexOne(variants, theme) ==
    /\ Len(variants) >= 2
    /\ variants[2].theme = theme
    /\ variants[1].theme # theme

\* The selector that matches a value of data-theme.
DataThemeSelector(value) == "[data-theme='" \o value \o "']"

====
